---- MODULE Spec2Model ----
(***************************************************************************)
(* Detection reconciliation engine of the shelf inventory scanner          *)
(* (src/inventory_logic.py): greedy same-class matching of "before" and    *)
(* "after" detections, classification of matches and non-matches into      *)
(* signed per-label deltas.                                                *)
(*                                                                         *)
(* Conventions of the model.                                               *)
(*  - Python lists are sequences: the model's index i is Python's i-1.     *)
(*    The "no match" index stays -1 as in the code.                        *)
(*  - A dict is a function whose DOMAIN is the set of keys present.        *)
(*  - Bounding boxes are drawn from BBoxes, whose coordinates are even     *)
(*    integers, so that the midpoint (xmin + xmax) / 2 is an integer and   *)
(*    the division is exact.                                               *)
(*  - math.dist is the Euclidean distance sqrt(dx^2 + dy^2). The code uses *)
(*    it only in the comparison dist < min_dist (and in a print); the      *)
(*    model keeps its square, which orders distances identically.          *)
(***************************************************************************)
EXTENDS Integers, Sequences, FiniteSets, TLC

\* ------------------------------------------------------------------ bounds

\* Total number of detections in the before and after lists of one cycle.
MaxDetections == 4

\* Largest count a persisted store holds when a cycle starts.
MaxCount == 2

\* Largest absolute delta of one label in one changes mapping.
MaxDelta == 2

\* Largest number of boxes in one raw detector result.
MaxBoxes == 3

\* Seconds between two readings of the clock that differ.
ClockStep == 5

\* Number of times the user asks for a scan in one run of a front end.
MaxStartRequests == 2

\* Number of analysis threads one session of ui_app starts.
MaxThreads == 2

\* Class ids the detector reports in the modelled cycles (all are keys of
\* CLASS_MAP: parse_yolo_results drops every other id before the analysis).
ClassIds == {6, 7}

\* Bounding boxes (xmin, ymin, xmax, ymax) the detector reports. Centroids:
\* (1,1), (5,1), (1,5), (4,2).
BBoxes == { <<0, 0, 2, 2>>, <<4, 0, 6, 2>>, <<0, 4, 2, 6>>, <<2, 0, 6, 4>> }

\* ------------------------------------------------------------ configuration

CLASS_MAP ==
  [id \in 0..10 |->
     CASE id = 0 -> "MMs_peanut"
       [] id = 1 -> "MMs_regular"
       [] id = 2 -> "airheads"
       [] id = 3 -> "gummy_worms"
       [] id = 4 -> "milky_way"
       [] id = 5 -> "nerds"
       [] id = 6 -> "skittles"
       [] id = 7 -> "snickers"
       [] id = 8 -> "starbust"
       [] id = 9 -> "three_musketeers"
       [] OTHER  -> "twizzlers"]

\* ------------------------------------------------------------------ helpers

\* dict.get(key, default)
DictGet(d, key, default) == IF key \in DOMAIN d THEN d[key] ELSE default

\* d[key] = value
DictSet(d, key, value) ==
  [k \in (DOMAIN d) \cup {key} |-> IF k = key THEN value ELSE d[k]]

\* {}
EmptyDict == [k \in {} |-> 0]

\* class_map.get(class_id, f"ID:{class_id}")
ClassLabel(class_map, class_id) ==
  DictGet(class_map, class_id, "ID:" \o ToString(class_id))

Detections == [class_id : ClassIds, bbox : BBoxes]

\* float('inf'): above every squared distance between two centroids of BBoxes.
MaxCoordinate == CHOOSE m \in { b[k] : b \in BBoxes, k \in 1..4 } :
                   \A b \in BBoxes : \A k \in 1..4 : b[k] <= m
Inf == 2 * MaxCoordinate * MaxCoordinate + 1

\* ------------------------------------------------------------ pure functions

calculate_centroid(bbox) ==
  LET xmin == bbox[1]
      ymin == bbox[2]
      xmax == bbox[3]
      ymax == bbox[4]
      cx == (xmin + xmax) \div 2
      cy == (ymin + ymax) \div 2
  IN  <<cx, cy>>

\* math.dist(p, q), squared
math_dist(p, q) == (p[1] - q[1]) * (p[1] - q[1]) + (p[2] - q[2]) * (p[2] - q[2])

\* The for loop of find_best_match from Python index i-1 on, with the loop's
\* locals best_match_index and min_dist.
RECURSIVE find_best_match_loop(_, _, _, _, _, _)
find_best_match_loop(initial_centroid, initial_class_id, final_detections_list, matched, i, acc) ==
  IF i > Len(final_detections_list) THEN acc
  ELSE LET final_det == final_detections_list[i]
       IN  IF final_det.class_id # initial_class_id \/ i \in matched
           THEN find_best_match_loop(initial_centroid, initial_class_id,
                                     final_detections_list, matched, i + 1, acc)
           ELSE LET final_centroid == calculate_centroid(final_det.bbox)
                    dist == math_dist(initial_centroid, final_centroid)
                IN  find_best_match_loop(
                      initial_centroid, initial_class_id, final_detections_list,
                      matched, i + 1,
                      IF dist < acc.min_dist
                      THEN [best_match_index |-> i, min_dist |-> dist]
                      ELSE acc)

\* Mutant: takes the first unclaimed same-class after-detection, without
\* comparing distances.
find_best_match_first_candidate(initial_det, final_detections_list, matched) ==
  LET cands == { i \in 1..Len(final_detections_list) :
                   /\ final_detections_list[i].class_id = initial_det.class_id
                   /\ i \notin matched }
  IN  IF cands = {} THEN [best_match_index |-> -1, min_dist |-> Inf]
      ELSE LET i == CHOOSE x \in cands : \A y \in cands : x <= y
           IN  [best_match_index |-> i,
                min_dist |-> math_dist(calculate_centroid(initial_det.bbox),
                                       calculate_centroid(final_detections_list[i].bbox))]

\* Mutant: the scan does not skip the after-indices already claimed.
find_best_match_ignore_claimed(initial_det, final_detections_list, matched) ==
  find_best_match_loop(calculate_centroid(initial_det.bbox), initial_det.class_id,
                       final_detections_list, {}, 1,
                       [best_match_index |-> -1, min_dist |-> Inf])

\* Mutant: a distance gate, min_dist starts at a threshold instead of inf.
find_best_match_threshold(initial_det, final_detections_list, matched) ==
  find_best_match_loop(calculate_centroid(initial_det.bbox), initial_det.class_id,
                       final_detections_list, matched, 1,
                       [best_match_index |-> -1, min_dist |-> 17])

\* Mutant: the comparison is dist <= min_dist, so the last of several nearest
\* candidates is kept.
find_best_match_last_tie(initial_det, final_detections_list, matched) ==
  LET cands == { i \in 1..Len(final_detections_list) :
                   /\ final_detections_list[i].class_id = initial_det.class_id
                   /\ i \notin matched }
      d(i) == math_dist(calculate_centroid(initial_det.bbox),
                        calculate_centroid(final_detections_list[i].bbox))
  IN  IF cands = {} THEN [best_match_index |-> -1, min_dist |-> Inf]
      ELSE LET i == CHOOSE x \in cands :
                      \A y \in cands : d(x) < d(y) \/ (d(x) = d(y) /\ x >= y)
           IN  [best_match_index |-> i, min_dist |-> d(i)]

\* Returns best_match_index (-1 exactly when best_match is None) and min_dist.
find_best_match(initial_det, final_detections_list, matched) ==
  find_best_match_loop(calculate_centroid(initial_det.bbox), initial_det.class_id,
                       final_detections_list, matched, 1,
                       [best_match_index |-> -1, min_dist |-> Inf])

\* ---------------------------------------------------------------------- state

VARIABLES
  initial_detections,     \* argument: the before list
  final_detections,       \* argument: the after list
  pc,                     \* "pass1", "pass2", "done"
  idx,                    \* position of the running for loop
  matched_final_indices,  \* set of claimed after-indices
  inventory_changes,      \* dict label -> delta
  pairs,                  \* history: matches made, [before, after, distance]
  unmatched_before,       \* history: before-indices left unmatched
  unmatched_after,        \* history: after-indices found unmatched in pass 2
  events                  \* history: one record per classified event

VARIABLES
  heap,                   \* apply: the dict objects, by reference
  current_inventory,      \* apply: argument, reference of the caller's store
  changes_items,          \* apply: argument, inventory_changes.items() in order
  new_inventory,          \* apply: reference returned (0 before the return)
  apply_pc,               \* apply: "off", "call", "returned"
  store_at_call           \* apply history: the caller's store at the call

analysis_vars == <<initial_detections, final_detections, pc, idx, matched_final_indices,
                   inventory_changes, pairs, unmatched_before, unmatched_after, events>>

apply_vars == <<heap, current_inventory, changes_items, new_inventory, apply_pc,
                store_at_call>>

VARIABLES
  yolo_boxes,             \* parse: argument, results.boxes as [cls, xyxy, conf] records
  parse_i,                \* parse: loop position
  detections,             \* parse: the list being built
  parse_pc                \* parse: "off", "loop", "returned"

parse_vars == <<yolo_boxes, parse_i, detections, parse_pc>>

VARIABLES
  now,                    \* environment: time.time(), in seconds
  inventory_file,         \* environment: the content of the inventory JSON file
  start_requests          \* environment: start-scan requests made so far

env_vars == <<now, inventory_file, start_requests>>

VARIABLES
  cli_pc,                 \* action_scanner: "off", "startup", "loop", "exited", "crashed"
  current_state,          \* action_scanner: "idle" or "scanning"
  scan_start_time,        \* action_scanner: time of the start, -1 for None
  initial_frame,          \* action_scanner: the before shot (its capture time), -1 for None
  inventory,              \* action_scanner: the store held in memory
  cycle                   \* action_scanner history: the cycle running or last run

cli_vars == <<cli_pc, current_state, scan_start_time, initial_frame, inventory, cycle>>

VARIABLES
  loaded,                 \* persistence: what the last load_inventory call did
  last_saved,             \* persistence history: the mapping of the last successful save
  intact                  \* persistence history: the file is as that save left it

store_vars == <<loaded, last_saved, intact>>

VARIABLES
  raw_bbox,               \* calculate_centroid: the bbox argument as received
  centroid_out,           \* calculate_centroid: what the call did
  cycle_out               \* analyze_inventory_changes on that bbox: what the call did

centroid_vars == <<raw_bbox, centroid_out, cycle_out>>

VARIABLES
  front_end,              \* which program's latest-frame cell is followed, "" for none
  latest_jpeg,            \* action_scanner: _latest_jpeg, 0 for None, else the frame number
  latest_jpeg_lock,       \* action_scanner: _latest_jpeg_lock, "free" or its holder
  processor_latest_frame, \* ui_app: PreviewProcessor.latest_frame, 0 for None
  writer,                 \* the loop that produces frames: its position and its locals
  readers,                \* the threads that take frames: position, local frame, history
  completed_write         \* history: the frame of the last write that completed, 0 for none

cell_vars ==
  <<front_end, latest_jpeg, latest_jpeg_lock, processor_latest_frame, writer, readers,
    completed_write>>

VARIABLES
  ui_pc,                  \* ui_app: line of main() the script run is at, or "waiting"
  is_scanning,            \* ui_app: st.session_state.is_scanning
  scan_start_ts,          \* ui_app: st.session_state.scan_start_ts, -1 for None
  ss_initial_frame,       \* ui_app: st.session_state.initial_frame, -1 for None
  ss_final_frame,         \* ui_app: st.session_state.final_frame, -1 for None
  analyzing,              \* ui_app: st.session_state.analyzing
  ss_inventory,           \* ui_app: st.session_state.inventory
  last_changes,           \* ui_app: st.session_state.last_changes
  latest_frame,           \* ui_app: processor_ref.latest_frame, -1 for None
  start_enabled,          \* ui_app: the Start button as last rendered
  reset_enabled,          \* ui_app: the Reset button as last rendered
  click,                  \* ui_app: the button click the next run delivers
  threads,                \* ui_app: the run_analysis_async threads started
  accepted                \* ui_app history: the last accepted start request

ui_vars ==
  <<ui_pc, is_scanning, scan_start_ts, ss_initial_frame, ss_final_frame, analyzing,
    ss_inventory, last_changes, latest_frame, start_enabled, reset_enabled, click,
    threads, accepted>>

vars ==
  <<analysis_vars, apply_vars, parse_vars, env_vars, cli_vars, ui_vars, store_vars,
    centroid_vars, cell_vars>>

\* The variables of the other operations while analyze_inventory_changes runs.
outside_analysis == <<apply_vars, parse_vars, env_vars, cli_vars, ui_vars, store_vars, centroid_vars, cell_vars>>

\* The variables of the other operations while apply_inventory_updates runs.
outside_apply == <<analysis_vars, parse_vars, env_vars, cli_vars, ui_vars, store_vars, centroid_vars, cell_vars>>

\* The variables of the other operations while parse_yolo_results runs.
outside_parse == <<analysis_vars, apply_vars, env_vars, cli_vars, ui_vars, store_vars, centroid_vars, cell_vars>>

\* The variables of the pure functions while a front end runs.
engine_vars == <<analysis_vars, apply_vars, parse_vars>>

\* The variables outside action_scanner.py and its environment.
outside_cli == <<engine_vars, ui_vars, store_vars, centroid_vars, cell_vars>>

\* The variables outside ui_app.py and its environment.
outside_ui == <<engine_vars, cli_vars, store_vars, centroid_vars, cell_vars>>

\* The variables outside load_inventory, save_inventory and the file.
outside_store == <<engine_vars, cli_vars, ui_vars, now, start_requests, centroid_vars, cell_vars>>

\* A file that does not exist.
Absent == [kind |-> "absent", tokens |-> <<>>]

\* No load_inventory or save_inventory call is followed.
StoreOff ==
  /\ loaded = <<>>
  /\ last_saved = <<>>
  /\ intact = FALSE

\* The variables outside a lone calculate_centroid call.
outside_centroid == <<engine_vars, env_vars, cli_vars, ui_vars, store_vars, cell_vars>>

\* No lone calculate_centroid call is followed.
CentroidOff ==
  /\ raw_bbox = <<>>
  /\ centroid_out = <<>>
  /\ cycle_out = <<>>

\* The variables outside the latest-frame cells.
outside_cell == <<engine_vars, env_vars, cli_vars, ui_vars, store_vars, centroid_vars>>

\* No latest-frame cell is followed.
CellOff ==
  /\ front_end = ""
  /\ latest_jpeg = 0
  /\ latest_jpeg_lock = "free"
  /\ processor_latest_frame = 0
  /\ writer = <<>>
  /\ readers = <<>>
  /\ completed_write = 0

\* No front end is modelled.
EnvOff ==
  /\ now = 0
  /\ inventory_file = Absent
  /\ start_requests = 0

\* action_scanner.py does not run.
CliOff ==
  /\ cli_pc = "off"
  /\ current_state = "idle"
  /\ scan_start_time = -1
  /\ initial_frame = -1
  /\ inventory = <<>>
  /\ cycle = <<>>

\* ui_app.py does not run.
UiOff ==
  /\ ui_pc = "off"
  /\ is_scanning = FALSE
  /\ scan_start_ts = -1
  /\ ss_initial_frame = -1
  /\ ss_final_frame = -1
  /\ analyzing = FALSE
  /\ ss_inventory = <<>>
  /\ last_changes = <<>>
  /\ latest_frame = -1
  /\ start_enabled = FALSE
  /\ reset_enabled = FALSE
  /\ click = "none"
  /\ threads = <<>>
  /\ accepted = <<>>

\* No call of parse_yolo_results is modelled.
ParseOff ==
  /\ yolo_boxes = <<>>
  /\ parse_i = 0
  /\ detections = <<>>
  /\ parse_pc = "off"

\* No call of apply_inventory_updates is modelled.
ApplyOff ==
  /\ heap = <<>>
  /\ current_inventory = 0
  /\ changes_items = <<>>
  /\ new_inventory = 0
  /\ apply_pc = "off"
  /\ store_at_call = <<>>

Init ==
  /\ \E n \in 0..MaxDetections : \E m \in 0..(MaxDetections - n) :
        /\ initial_detections \in [1..n -> Detections]
        /\ final_detections \in [1..m -> Detections]
  /\ pc = "pass1"
  /\ idx = 1
  /\ matched_final_indices = {}
  /\ inventory_changes = EmptyDict
  /\ pairs = {}
  /\ unmatched_before = {}
  /\ unmatched_after = {}
  /\ events = <<>>
  /\ ApplyOff
  /\ ParseOff
  /\ EnvOff
  /\ CliOff
  /\ UiOff
  /\ StoreOff
  /\ CentroidOff
  /\ CellOff

\* Mutant: the entry is overwritten instead of accumulated.
Accumulate_overwrite(changes, label, amount) == DictSet(changes, label, amount)

\* inventory_changes[label] = inventory_changes.get(label, 0) + amount
Accumulate(changes, label, amount) ==
  DictSet(changes, label, DictGet(changes, label, 0) + amount)

\* Mutant: the two directions are swapped.
MovedChanges_swapped(changes, initial_label, cx_initial, cx_final) ==
  IF cx_final > cx_initial THEN Accumulate(changes, initial_label, 1)
  ELSE IF cx_final < cx_initial THEN Accumulate(changes, initial_label, -1)
  ELSE changes

\* Mutant: the first comparison is >=, so a pair that did not move counts as
\* sold.
MovedChanges_not_strict(changes, initial_label, cx_initial, cx_final) ==
  IF cx_final >= cx_initial THEN Accumulate(changes, initial_label, -1)
  ELSE Accumulate(changes, initial_label, 1)

\* The if / elif / else on the horizontal centroids of a matched pair.
MovedChanges(changes, initial_label, cx_initial, cx_final) ==
  IF cx_final > cx_initial THEN Accumulate(changes, initial_label, -1)
  ELSE IF cx_final < cx_initial THEN Accumulate(changes, initial_label, 1)
  ELSE changes

\* Mutant: a disappearance is reported but not counted.
DisappearedChanges_not_counted(changes, initial_label) == changes

\* Case 2 of pass 1: no match found.
DisappearedChanges(changes, initial_label) == Accumulate(changes, initial_label, -1)

\* Mutant: an appearance counts as a restock.
AppearedChanges_restock(changes, final_label) == Accumulate(changes, final_label, 1)

\* Pass 2: an after-detection nobody claimed.
AppearedChanges(changes, final_label) == Accumulate(changes, final_label, -1)

\* History record of one classified event; delta is what the step did to the
\* label's entry of inventory_changes.
Event(kind, before, after, label, old_changes, new_changes) ==
  [kind |-> kind, before |-> before, after |-> after, label |-> label,
   delta |-> DictGet(new_changes, label, 0) - DictGet(old_changes, label, 0)]

\* ---------------------------------------------------------------- operations

\* One iteration of the pass 1 loop of analyze_inventory_changes.
Pass1Step ==
  /\ pc = "pass1"
  /\ idx <= Len(initial_detections)
  /\ LET initial_det == initial_detections[idx]
         initial_label == ClassLabel(CLASS_MAP, initial_det.class_id)
         found == find_best_match(initial_det, final_detections, matched_final_indices)
         best_match_index == found.best_match_index
     IN  IF best_match_index # -1
         THEN LET best_match == final_detections[best_match_index]
                  cx_initial == calculate_centroid(initial_det.bbox)[1]
                  cx_final == calculate_centroid(best_match.bbox)[1]
              IN  /\ matched_final_indices' = matched_final_indices \cup {best_match_index}
                  /\ inventory_changes' =
                       MovedChanges(inventory_changes, initial_label, cx_initial, cx_final)
                  /\ pairs' = pairs \cup {[before |-> idx, after |-> best_match_index,
                                           distance |-> found.min_dist]}
                  /\ events' = Append(events,
                       Event("matched", idx, best_match_index, initial_label,
                             inventory_changes, inventory_changes'))
                  /\ UNCHANGED unmatched_before
         ELSE /\ inventory_changes' = DisappearedChanges(inventory_changes, initial_label)
              /\ unmatched_before' = unmatched_before \cup {idx}
              /\ events' = Append(events,
                   Event("disappeared", idx, -1, initial_label,
                         inventory_changes, inventory_changes'))
              /\ UNCHANGED <<matched_final_indices, pairs>>
  /\ idx' = idx + 1
  /\ UNCHANGED <<initial_detections, final_detections, pc, unmatched_after>>
  /\ UNCHANGED outside_analysis

\* The pass 1 loop is exhausted: pass 2 starts at the head of the after list.
Pass1End ==
  /\ pc = "pass1"
  /\ idx > Len(initial_detections)
  /\ pc' = "pass2"
  /\ idx' = 1
  /\ UNCHANGED <<initial_detections, final_detections, matched_final_indices,
                 inventory_changes, pairs, unmatched_before, unmatched_after, events>>
  /\ UNCHANGED outside_analysis

\* One iteration of the pass 2 loop.
Pass2Step ==
  /\ pc = "pass2"
  /\ idx <= Len(final_detections)
  /\ IF idx \notin matched_final_indices
     THEN LET final_det == final_detections[idx]
              final_label == ClassLabel(CLASS_MAP, final_det.class_id)
          IN  /\ inventory_changes' = AppearedChanges(inventory_changes, final_label)
              /\ unmatched_after' = unmatched_after \cup {idx}
              /\ events' = Append(events,
                   Event("appeared", -1, idx, final_label,
                         inventory_changes, inventory_changes'))
     ELSE UNCHANGED <<inventory_changes, unmatched_after, events>>
  /\ idx' = idx + 1
  /\ UNCHANGED <<initial_detections, final_detections, pc, matched_final_indices,
                 pairs, unmatched_before>>
  /\ UNCHANGED outside_analysis

\* return inventory_changes
Return ==
  /\ pc = "pass2"
  /\ idx > Len(final_detections)
  /\ pc' = "done"
  /\ UNCHANGED <<initial_detections, final_detections, idx, matched_final_indices,
                 inventory_changes, pairs, unmatched_before, unmatched_after, events>>
  /\ UNCHANGED outside_analysis

Next == Pass1Step \/ Pass1End \/ Pass2Step \/ Return

Spec == Init /\ [][Next]_vars

\* ---------------------------------------------------- vocabulary of the claims

\* Twice the exact midpoint of a detection's box (no division).
Mid2(det) == <<det.bbox[1] + det.bbox[3], det.bbox[2] + det.bbox[4]>>

\* Four times the squared Euclidean distance between the centroids of
\* before-detection b and after-detection a.
CentroidDist(b, a) ==
  LET p == Mid2(initial_detections[b])
      q == Mid2(final_detections[a])
  IN  (p[1] - q[1]) * (p[1] - q[1]) + (p[2] - q[2]) * (p[2] - q[2])

\* The direction rule of the spec's table on the horizontal coordinate.
Direction(b, a) ==
  LET cx_before == Mid2(initial_detections[b])[1]
      cx_after == Mid2(final_detections[a])[1]
  IN  IF cx_after > cx_before THEN -1
      ELSE IF cx_after < cx_before THEN 1 ELSE 0

BeforeIndices == 1..Len(initial_detections)
AfterIndices == 1..Len(final_detections)
MatchedBefore == { p.before : p \in pairs }
MatchedAfter == { p.after : p \in pairs }

\* Before-detection b has had its turn in pass 1.
Processed(b) == b \in BeforeIndices /\ (pc # "pass1" \/ b < idx)

\* After-indices claimed by the before-detections that precede b.
ClaimedAtTurn(b) == { p.after : p \in { q \in pairs : q.before < b } }

\* The unclaimed same-class after-detections at b's turn.
Candidates(b) ==
  { a \in AfterIndices :
      /\ final_detections[a].class_id = initial_detections[b].class_id
      /\ a \notin ClaimedAtTurn(b) }

RECURSIVE SumValues(_)
SumValues(d) ==
  IF DOMAIN d = {} THEN 0
  ELSE LET k == CHOOSE x \in DOMAIN d : TRUE
       IN  d[k] + SumValues([x \in (DOMAIN d) \ {k} |-> d[x]])

RECURSIVE SumDirection(_)
SumDirection(P) ==
  IF P = {} THEN 0
  ELSE LET p == CHOOSE x \in P : TRUE
       IN  Direction(p.before, p.after) + SumDirection(P \ {p})

\* The delta the spec's rules give an event.
RuleDelta(e) == IF e.kind = "matched" THEN Direction(e.before, e.after) ELSE -1

\* Sum of the rule deltas of the first n events whose label is l.
RECURSIVE SumRuleDelta(_, _)
SumRuleDelta(n, l) ==
  IF n = 0 THEN 0
  ELSE SumRuleDelta(n - 1, l) + (IF events[n].label = l THEN RuleDelta(events[n]) ELSE 0)

Labels == { CLASS_MAP[c] : c \in ClassIds }

\* ---------------------------------------------------------------------- claims

\* C1: every matched before-detection is paired with an after-detection that,
\* among the same-class after-detections not yet claimed at its turn, is at
\* minimum Euclidean centroid distance.
C1_NearestUnclaimedSameClass ==
  \A p \in pairs :
    /\ p.after \in Candidates(p.before)
    /\ \A a \in Candidates(p.before) :
         CentroidDist(p.before, p.after) <= CentroidDist(p.before, a)

\* A match that passed over an earlier-listed, strictly farther candidate.
C1_Witness ==
  /\ pc = "done"
  /\ \E p \in pairs : \E a \in Candidates(p.before) :
       a < p.after /\ CentroidDist(p.before, a) > CentroidDist(p.before, p.after)

\* C2: every before-index and every after-index is in at most one matched
\* pair, and both sides of a pair have the same class_id.
C2_OnePairPerIndexSameClass ==
  /\ \A p \in pairs : \A q \in pairs :
       (p.before = q.before \/ p.after = q.after) => p = q
  /\ \A p \in pairs :
       initial_detections[p.before].class_id = final_detections[p.after].class_id
  /\ matched_final_indices = MatchedAfter

\* A later before-detection whose nearest same-class after-detection had been
\* claimed, and which was matched to another one.
C2_Witness ==
  /\ pc = "done"
  /\ \E p \in pairs : \E q \in pairs :
       /\ p.before < q.before
       /\ initial_detections[p.before].class_id = initial_detections[q.before].class_id
       /\ CentroidDist(q.before, p.after) < CentroidDist(q.before, q.after)

\* C3: a before-detection that has had its turn is unmatched exactly when no
\* unclaimed same-class after-detection remained at its turn, and matched
\* exactly when one remained, at any distance.
C3_UnmatchedIffNoCandidate ==
  \A b \in BeforeIndices :
    Processed(b) =>
      /\ (b \in unmatched_before <=> Candidates(b) = {})
      /\ (b \in MatchedBefore <=> Candidates(b) # {})

\* A match at the largest centroid distance the boxes allow.
C3_Witness ==
  /\ pc = "done"
  /\ \E p \in pairs :
       \A d1 \in Detections : \A d2 \in Detections :
         LET m1 == Mid2(d1)
             m2 == Mid2(d2)
         IN  (m1[1] - m2[1]) * (m1[1] - m2[1]) + (m1[2] - m2[2]) * (m1[2] - m2[2])
               <= CentroidDist(p.before, p.after)

\* C4: a matched pair changes its label's entry by -1 when cx_after >
\* cx_before, by +1 when cx_after < cx_before and by 0 when they are equal,
\* whatever the vertical coordinates and the distance.
C4_DeltaByHorizontalDirection ==
  \A n \in 1..Len(events) :
    LET e == events[n]
    IN  e.kind = "matched" =>
          /\ [before |-> e.before, after |-> e.after,
              distance |-> CentroidDist(e.before, e.after) \div 4] \in pairs
          /\ e.label = CLASS_MAP[initial_detections[e.before].class_id]
          /\ e.delta = Direction(e.before, e.after)

\* A pair that moved vertically only (delta 0) and a pair that moved both
\* rightwards and vertically (delta -1), in one cycle.
C4_Witness ==
  /\ pc = "done"
  /\ \E p \in pairs : \E q \in pairs :
       /\ Mid2(initial_detections[p.before])[1] = Mid2(final_detections[p.after])[1]
       /\ Mid2(initial_detections[p.before])[2] # Mid2(final_detections[p.after])[2]
       /\ Mid2(initial_detections[q.before])[1] < Mid2(final_detections[q.after])[1]
       /\ Mid2(initial_detections[q.before])[2] # Mid2(final_detections[q.after])[2]

\* C5: every unmatched detection, disappeared (before) or appeared (after),
\* changes its label's entry by exactly -1.
C5_UnmatchedContributesMinusOne ==
  /\ \A n \in 1..Len(events) :
       events[n].kind # "matched" => events[n].delta = -1
  /\ \A b \in unmatched_before :
       \E n \in 1..Len(events) :
         /\ events[n].kind = "disappeared"
         /\ events[n].before = b
         /\ events[n].label = CLASS_MAP[initial_detections[b].class_id]
  /\ pc = "done" =>
       \A a \in AfterIndices \ MatchedAfter :
         \E n \in 1..Len(events) :
           /\ events[n].kind = "appeared"
           /\ events[n].after = a
           /\ events[n].label = CLASS_MAP[final_detections[a].class_id]

\* A cycle with a disappeared and an appeared detection.
C5_Witness ==
  /\ pc = "done"
  /\ unmatched_before # {}
  /\ AfterIndices \ MatchedAfter # {}

\* C6: the values of the returned changes sum to -(unmatched before)
\* -(unmatched after) + the direction deltas of the matched pairs.
C6_NetDeltaAccounting ==
  pc = "done" =>
    SumValues(inventory_changes) =
      0 - Cardinality(BeforeIndices \ MatchedBefore)
        - Cardinality(AfterIndices \ MatchedAfter)
        + SumDirection(pairs)

\* A cycle in which all three terms are present.
C6_Witness ==
  /\ pc = "done"
  /\ BeforeIndices \ MatchedBefore # {}
  /\ AfterIndices \ MatchedAfter # {}
  /\ \E p \in pairs : Direction(p.before, p.after) = 1

\* C7: the entry of a label is the sum of the deltas of all events so far
\* whose detection maps to that label (0 when the label has no entry).
C7_PerLabelSummation ==
  \A l \in Labels :
    DictGet(inventory_changes, l, 0) = SumRuleDelta(Len(events), l)

\* A label that accumulated three events of the same sign.
C7_Witness ==
  /\ pc = "done"
  /\ \E l \in DOMAIN inventory_changes : inventory_changes[l] <= -3

\* C8 (as claimed): a label whose net delta is 0 is not in the returned
\* changes.
C8_NoZeroEntries ==
  pc = "done" => \A l \in DOMAIN inventory_changes : inventory_changes[l] # 0

\* C10 (as claimed): two before-detections and one after-detection of a
\* class: the before-detection nearer to the after-detection is the matched
\* one, the other is unmatched with delta -1.
TwoBeforeOneAfter(c, b1, b2, a) ==
  /\ b1 \in BeforeIndices /\ b2 \in BeforeIndices /\ b1 < b2 /\ a \in AfterIndices
  /\ { b \in BeforeIndices : initial_detections[b].class_id = c } = {b1, b2}
  /\ { x \in AfterIndices : final_detections[x].class_id = c } = {a}

MatchedOnly(m, o, a) ==
  /\ \E p \in pairs : p.before = m /\ p.after = a
  /\ o \notin MatchedBefore
  /\ o \in unmatched_before
  /\ \E n \in 1..Len(events) :
       events[n].kind = "disappeared" /\ events[n].before = o /\ events[n].delta = -1

C10_NearerBeforeMatched ==
  pc = "done" =>
    \A c \in ClassIds : \A b1 \in BeforeIndices : \A b2 \in BeforeIndices :
      \A a \in AfterIndices :
        TwoBeforeOneAfter(c, b1, b2, a) =>
          IF CentroidDist(b1, a) <= CentroidDist(b2, a)
          THEN MatchedOnly(b1, b2, a)
          ELSE MatchedOnly(b2, b1, a)

\* C10 (amended): the before-detection that comes first in the before list is
\* the matched one, whatever its distance; the other is unmatched with
\* delta -1.
C10_FirstBeforeMatched ==
  pc = "done" =>
    \A c \in ClassIds : \A b1 \in BeforeIndices : \A b2 \in BeforeIndices :
      \A a \in AfterIndices :
        TwoBeforeOneAfter(c, b1, b2, a) => MatchedOnly(b1, b2, a)

\* Two before, one after of a class, the first before strictly farther.
C10_Witness ==
  /\ pc = "done"
  /\ \E c \in ClassIds : \E b1 \in BeforeIndices : \E b2 \in BeforeIndices :
       \E a \in AfterIndices :
         /\ TwoBeforeOneAfter(c, b1, b2, a)
         /\ CentroidDist(b1, a) > CentroidDist(b2, a)
         /\ MatchedOnly(b1, b2, a)

\* ------------------------------------------------------------------- C11

\* The after-index the matcher paired with before-index b.
GreedyAfter(b) == (CHOOSE p \in pairs : p.before = b).after

\* The complete same-class pairings of the matched before-detections: every
\* injective assignment of a same-class after-index to each of them.
CompletePairings ==
  { M \in [MatchedBefore -> AfterIndices] :
      /\ \A b \in MatchedBefore :
           final_detections[M[b]].class_id = initial_detections[b].class_id
      /\ \A b1 \in MatchedBefore : \A b2 \in MatchedBefore :
           M[b1] = M[b2] => b1 = b2 }

\* Integer bounds of 8 * sqrt(n): SqrtLo[n] <= 8 * sqrt(n) <= SqrtHi[n].
SqrtLo == [n \in 0..(4 * Inf) |-> CHOOSE r \in 0..(8 * 4 * Inf) :
                                   r * r <= 64 * n /\ (r + 1) * (r + 1) > 64 * n]
SqrtHi == [n \in 0..(4 * Inf) |-> IF SqrtLo[n] * SqrtLo[n] = 64 * n
                                 THEN SqrtLo[n] ELSE SqrtLo[n] + 1]

\* Lower bound of 16 times the total centroid distance of the matcher's pairs.
RECURSIVE GreedyTotalLo(_)
GreedyTotalLo(B) ==
  IF B = {} THEN 0
  ELSE LET b == CHOOSE x \in B : TRUE
       IN  SqrtLo[CentroidDist(b, GreedyAfter(b))] + GreedyTotalLo(B \ {b})

\* Upper bound of 16 times the total centroid distance of the pairing M.
RECURSIVE PairingTotalHi(_, _)
PairingTotalHi(M, B) ==
  IF B = {} THEN 0
  ELSE LET b == CHOOSE x \in B : TRUE
       IN  SqrtHi[CentroidDist(b, M[b])] + PairingTotalHi(M, B \ {b})

\* C11: the matcher is greedy in list order: against every other complete
\* same-class pairing of the matched before-detections, the first
\* before-detection (in list order) on which the two differ got, from the
\* matcher, a candidate at least as near as the one the other pairing gives
\* it (the earlier detection took its nearest candidate first).
C11_EarlierTakesNearestFirst ==
  pc = "done" =>
    \A M \in CompletePairings :
      \A b \in MatchedBefore :
        ( /\ M[b] # GreedyAfter(b)
          /\ \A e \in MatchedBefore : e < b => M[e] = GreedyAfter(e) )
        => CentroidDist(b, GreedyAfter(b)) <= CentroidDist(b, M[b])

\* The pairs produced have a strictly greater total centroid distance than
\* another complete same-class pairing.
C11_Witness ==
  /\ pc = "done"
  /\ \E M \in CompletePairings :
       PairingTotalHi(M, MatchedBefore) < GreedyTotalLo(MatchedBefore)

\* ------------------------------------------------- apply_inventory_updates

\* No analysis is modelled.
AnalysisOff ==
  /\ initial_detections = <<>>
  /\ final_detections = <<>>
  /\ pc = "off"
  /\ idx = 0
  /\ matched_final_indices = {}
  /\ inventory_changes = EmptyDict
  /\ pairs = {}
  /\ unmatched_before = {}
  /\ unmatched_after = {}
  /\ events = <<>>

\* Labels of the modelled stores and changes mappings.
StoreLabels == {"skittles", "snickers"}

\* The stores: any subset of the labels, each with a count.
Stores ==
  UNION { [L -> 0..MaxCount] : L \in SUBSET StoreLabels }

\* The changes mappings as their items() sequences: distinct labels, in any
\* insertion order, each with a delta.
ChangesItems ==
  UNION { { q \in [1..n -> StoreLabels \X ((0 - MaxDelta)..MaxDelta)] :
              \A i \in 1..n : \A j \in 1..n : q[i][1] = q[j][1] => i = j } :
          n \in 0..Cardinality(StoreLabels) }

\* Mutant: no copy, the new name is bound to the caller's dict.
dict_copy_alias(h, ref) == [heap |-> h, ref |-> ref]

\* current_inventory.copy(): a new dict object with the same items.
dict_copy(h, ref) ==
  LET new == Len(h) + 1
  IN  [heap |-> Append(h, h[ref]), ref |-> new]

\* Mutant: counts are floored at zero.
AddAmount_floor(count, change_amount) ==
  IF count + change_amount < 0 THEN 0 ELSE count + change_amount

\* new_inventory[item] += change_amount
AddAmount(count, change_amount) == count + change_amount

\* The for loop of apply_inventory_updates from item i on.
RECURSIVE apply_loop(_, _, _, _)
apply_loop(h, ref, items, i) ==
  IF i > Len(items) THEN [heap |-> h, ref |-> ref]
  ELSE LET item == items[i][1]
           change_amount == items[i][2]
           initialized == IF item \notin DOMAIN h[ref]
                          THEN DictSet(h[ref], item, 0)
                          ELSE h[ref]
           updated == DictSet(initialized, item, AddAmount(initialized[item], change_amount))
       IN  apply_loop([h EXCEPT ![ref] = updated], ref, items, i + 1)

\* Mutant: with no changes the caller's own dict is returned.
apply_inventory_updates_same_when_empty(h, current, items) ==
  IF items = <<>> THEN [heap |-> h, ref |-> current]
  ELSE apply_loop(dict_copy(h, current).heap, dict_copy(h, current).ref, items, 1)

\* apply_inventory_updates(current_inventory, inventory_changes) on the heap
\* h: the heap after the call and the reference returned.
apply_inventory_updates(h, current, items) ==
  LET copied == dict_copy(h, current)
  IN  IF items = <<>> THEN copied
      ELSE apply_loop(copied.heap, copied.ref, items, 1)

InitApply ==
  /\ AnalysisOff
  /\ ParseOff
  /\ EnvOff
  /\ CliOff
  /\ UiOff
  /\ StoreOff
  /\ CentroidOff
  /\ CellOff
  /\ \E store \in Stores :
       /\ heap = <<store>>
       /\ store_at_call = store
  /\ current_inventory = 1
  /\ changes_items \in ChangesItems
  /\ new_inventory = 0
  /\ apply_pc = "call"

\* The call of apply_inventory_updates, from entry to return.
ApplyUpdates ==
  /\ apply_pc = "call"
  /\ LET r == apply_inventory_updates(heap, current_inventory, changes_items)
     IN  /\ heap' = r.heap
         /\ new_inventory' = r.ref
  /\ apply_pc' = "returned"
  /\ UNCHANGED <<current_inventory, changes_items, store_at_call>>
  /\ UNCHANGED outside_apply

NextApply == ApplyUpdates

SpecApply == InitApply /\ [][NextApply]_vars

\* The changes mapping of the call, as label -> delta.
ChangesDict ==
  [l \in { changes_items[i][1] : i \in 1..Len(changes_items) } |->
     (CHOOSE q \in { changes_items[i] : i \in 1..Len(changes_items) } : q[1] = l)[2]]

\* C12: the returned store has, for every label of changes, the caller's
\* count (0 when absent) plus the delta, keeps every other label of the
\* caller's store, and has no other label; no floor or ceiling is applied.
C12_ApplyPostcondition ==
  apply_pc = "returned" =>
    LET result == heap[new_inventory]
    IN  /\ DOMAIN result = (DOMAIN store_at_call) \cup (DOMAIN ChangesDict)
        /\ \A l \in DOMAIN ChangesDict :
             result[l] = DictGet(store_at_call, l, 0) + ChangesDict[l]
        /\ \A l \in (DOMAIN store_at_call) \ (DOMAIN ChangesDict) :
             result[l] = store_at_call[l]

\* A label created lazily that ends negative, beside a label that is kept.
C12_Witness ==
  /\ apply_pc = "returned"
  /\ \E l \in DOMAIN ChangesDict : \E k \in DOMAIN store_at_call :
       /\ l \notin DOMAIN store_at_call
       /\ heap[new_inventory][l] < 0
       /\ k \notin DOMAIN ChangesDict
       /\ heap[new_inventory][k] = store_at_call[k]

\* C13: the caller's store has, after the call, exactly the labels and
\* counts it had before the call.
C13_CallerStoreUntouched ==
  apply_pc = "returned" => heap[current_inventory] = store_at_call

\* A call that returned a store different from the caller's.
C13_Witness ==
  /\ apply_pc = "returned"
  /\ Len(changes_items) = 2
  /\ heap[new_inventory] # store_at_call
  /\ store_at_call # <<>>

\* C14: with an empty changes mapping the result has the labels and counts of
\* the caller's store and is another dict object.
C14_EmptyChangesGivesDistinctCopy ==
  (apply_pc = "returned" /\ changes_items = <<>>) =>
    /\ heap[new_inventory] = store_at_call
    /\ new_inventory # current_inventory

\* A call with no changes on a store that holds two labels.
C14_Witness ==
  /\ apply_pc = "returned"
  /\ changes_items = <<>>
  /\ DOMAIN store_at_call = StoreLabels
  /\ heap[new_inventory] = heap[current_inventory]

\* ------------------------------------------------------ parse_yolo_results

\* Class ids in a raw detector result: two keys of CLASS_MAP and one id that
\* is not a key.
RawClassIds == {6, 7, 11}

\* Confidence values (percent) in a raw detector result.
RawConfidences == {90}

\* One box of results.boxes: cls[i], xyxy[i], conf[i].
RawBoxes == [cls : RawClassIds, xyxy : BBoxes, conf : RawConfidences]

\* Mutant: the unknown class id is warned about but not skipped.
parse_box_no_skip(dets, box, class_map) ==
  Append(dets, [class_id |-> box.cls, bbox |-> box.xyxy, confidence |-> box.conf])

\* The body of the loop of parse_yolo_results for one box: the list after it.
parse_box(dets, box, class_map) ==
  LET class_id == box.cls
  IN  IF class_id \notin DOMAIN class_map
      THEN dets
      ELSE Append(dets, [class_id |-> class_id, bbox |-> box.xyxy,
                         confidence |-> box.conf])

InitParse ==
  /\ AnalysisOff
  /\ ApplyOff
  /\ EnvOff
  /\ CliOff
  /\ UiOff
  /\ StoreOff
  /\ CentroidOff
  /\ CellOff
  /\ \E n \in 0..MaxBoxes : yolo_boxes \in [1..n -> RawBoxes]
  /\ parse_i = 1
  /\ detections = <<>>
  /\ parse_pc = "loop"

\* One iteration of the loop of parse_yolo_results.
ParseBox ==
  /\ parse_pc = "loop"
  /\ parse_i <= Len(yolo_boxes)
  /\ detections' = parse_box(detections, yolo_boxes[parse_i], CLASS_MAP)
  /\ parse_i' = parse_i + 1
  /\ UNCHANGED <<yolo_boxes, parse_pc>>
  /\ UNCHANGED outside_parse

\* return detections
ParseReturn ==
  /\ parse_pc = "loop"
  /\ parse_i > Len(yolo_boxes)
  /\ parse_pc' = "returned"
  /\ UNCHANGED <<yolo_boxes, parse_i, detections>>
  /\ UNCHANGED outside_parse

NextParse == ParseBox \/ ParseReturn

SpecParse == InitParse /\ [][NextParse]_vars

\* The boxes among the first n whose class id is a key of CLASS_MAP, in
\* their original order, as detection records.
RECURSIVE KnownPrefix(_)
KnownPrefix(n) ==
  IF n = 0 THEN <<>>
  ELSE IF yolo_boxes[n].cls \in DOMAIN CLASS_MAP
       THEN Append(KnownPrefix(n - 1),
                   [class_id |-> yolo_boxes[n].cls, bbox |-> yolo_boxes[n].xyxy,
                    confidence |-> yolo_boxes[n].conf])
       ELSE KnownPrefix(n - 1)

\* C20: the list built is, at every point of the loop and at the return,
\* exactly the known-class boxes seen so far in their original order; the
\* loop runs to the end whatever ids it meets, and no detection of the
\* returned list has a class id outside CLASS_MAP.
C20_ParseKeepsKnownInOrder ==
  /\ parse_pc = "loop" => detections = KnownPrefix(parse_i - 1)
  /\ parse_pc = "returned" =>
       /\ parse_i = Len(yolo_boxes) + 1
       /\ detections = KnownPrefix(Len(yolo_boxes))
       /\ \A k \in 1..Len(detections) : detections[k].class_id \in DOMAIN CLASS_MAP

\* A result whose unknown id sits between two different known detections.
C20_Witness ==
  /\ parse_pc = "returned"
  /\ Len(yolo_boxes) = 3
  /\ yolo_boxes[2].cls \notin DOMAIN CLASS_MAP
  /\ Len(detections) = 2
  /\ detections[1].class_id # detections[2].class_id

\* ------------------------------------------------- action_scanner.py: main

SCAN_DURATION_SEC == 10

\* No engine function is modelled step by step while a front end runs.
EngineOff == AnalysisOff /\ ApplyOff /\ ParseOff

\* The mappings the inventory editor page writes to the file.
EditorStores == UNION { [L -> 0..MaxCount] : L \in SUBSET {"skittles"} }

\* The changes mappings one analysis of a scan returns (the detector and the
\* scene are outside the model).
CycleChanges ==
  { EmptyDict, [l \in {"skittles"} |-> -1], [l \in {"skittles"} |-> 1],
    [l \in {"snickers"} |-> -1] }

\* A dict's items() in one order (the result of apply_inventory_updates does
\* not depend on the order: the keys are distinct).
RECURSIVE Items(_)
Items(d) ==
  IF DOMAIN d = {} THEN <<>>
  ELSE LET k == CHOOSE x \in DOMAIN d : TRUE
       IN  <<<<k, d[k]>>>> \o Items([x \in (DOMAIN d) \ {k} |-> d[x]])

\* apply_inventory_updates on values: the store returned.
ApplyValue(store, changes) ==
  LET r == apply_inventory_updates(<<store>>, 1, Items(changes))
  IN  r.heap[r.ref]

\* json.dump(inventory, f): an opening brace, one token per item, a closing
\* brace.
json_dump(d) ==
  LET items == Items(d)
  IN  <<[t |-> "{", key |-> "", value |-> 0]>>
      \o [n \in 1..Len(items) |-> [t |-> "item", key |-> items[n][1], value |-> items[n][2]]]
      \o <<[t |-> "}", key |-> "", value |-> 0]>>

\* The text is a JSON document: json.load does not raise JSONDecodeError.
json_valid(tokens) ==
  /\ Len(tokens) >= 2
  /\ tokens[1].t = "{"
  /\ tokens[Len(tokens)].t = "}"
  /\ \A n \in 2..(Len(tokens) - 1) : tokens[n].t = "item"

\* json.load of a JSON document: the mapping of its items.
json_load(tokens) ==
  LET keys == { tokens[n].key : n \in 2..(Len(tokens) - 1) }
  IN  [k \in keys |->
        tokens[CHOOSE n \in 2..(Len(tokens) - 1) :
                 /\ tokens[n].key = k
                 /\ \A m \in 2..(Len(tokens) - 1) : tokens[m].key = k => m <= n].value]

\* The file json.dump(inventory) writes in full.
Written(inventory_) == [kind |-> "text", tokens |-> json_dump(inventory_)]

\* A file whose bytes are no text in the encoding open(filepath, 'r') reads.
Undecodable == [kind |-> "bytes", tokens |-> <<>>]

\* load_inventory(filepath): {} when the file does not exist or json.load
\* raises JSONDecodeError; reading bytes that do not decode raises
\* UnicodeDecodeError, which is not caught.
load_inventory(file) ==
  IF file.kind = "absent" THEN [raised |-> FALSE, value |-> EmptyDict]
  ELSE IF file.kind = "bytes" THEN [raised |-> TRUE, value |-> EmptyDict]
  ELSE IF json_valid(file.tokens)
       THEN [raised |-> FALSE, value |-> json_load(file.tokens)]
       ELSE [raised |-> FALSE, value |-> EmptyDict]

\* save_inventory(filepath, inventory): the files it can leave. open(.., 'w')
\* fails and the file is as it was; or the file is truncated and json.dump
\* writes a part, or all, of the text. Exceptions are caught and printed.
save_inventory(file, inventory_) ==
  LET text == json_dump(inventory_)
  IN  {file} \cup { [kind |-> "text", tokens |-> SubSeq(text, 1, n)] : n \in 0..Len(text) }

InitCli ==
  /\ EngineOff
  /\ UiOff
  /\ StoreOff
  /\ CentroidOff
  /\ CellOff
  /\ now = 0
  /\ inventory_file \in { Written(s) : s \in EditorStores }
  /\ start_requests = 0
  /\ cli_pc = "startup"
  /\ current_state = "idle"
  /\ scan_start_time = -1
  /\ initial_frame = -1
  /\ inventory = EmptyDict
  /\ cycle = <<>>

\* main() up to the loop: the store is loaded from the file.
CliStartup ==
  /\ cli_pc = "startup"
  /\ inventory' = load_inventory(inventory_file).value
  /\ cli_pc' = IF load_inventory(inventory_file).raised THEN "crashed" ELSE "loop"
  /\ UNCHANGED <<current_state, scan_start_time, initial_frame, cycle>>
  /\ UNCHANGED <<env_vars, outside_cli>>

\* A loop iteration with key 's' in state idle: the scan starts; the
\* scanning branch of the same iteration finds the timer not expired.
CliKeyStart ==
  /\ cli_pc = "loop"
  /\ start_requests < MaxStartRequests
  /\ current_state = "idle"
  /\ current_state' = "scanning"
  /\ scan_start_time' = now
  /\ initial_frame' = now
  /\ start_requests' = start_requests + 1
  /\ cycle' = [file_at_start |-> inventory_file, edited |-> FALSE, saved |-> FALSE,
               changes |-> EmptyDict, saved_store |-> EmptyDict]
  /\ UNCHANGED <<cli_pc, inventory, now, inventory_file>>
  /\ UNCHANGED outside_cli

\* A loop iteration in state scanning (key 's' or no key: 's' is ignored)
\* before the timer expires.
CliScanning ==
  /\ cli_pc = "loop"
  /\ current_state = "scanning"
  /\ SCAN_DURATION_SEC - (now - scan_start_time) > 0
  /\ \/ /\ start_requests < MaxStartRequests
        /\ start_requests' = start_requests + 1
     \/ UNCHANGED start_requests
  /\ UNCHANGED <<now, inventory_file, cli_vars, outside_cli>>

\* A loop iteration in state scanning once the timer has expired: the final
\* frame is taken, the analysis runs, the store is updated and saved (the
\* write succeeds).
CliAnalyze ==
  /\ cli_pc = "loop"
  /\ current_state = "scanning"
  /\ SCAN_DURATION_SEC - (now - scan_start_time) <= 0
  /\ \E inventory_changes_ \in CycleChanges :
       /\ inventory' = ApplyValue(inventory, inventory_changes_)
       /\ inventory_file' = Written(inventory')
       /\ cycle' = [cycle EXCEPT !.saved = TRUE, !.changes = inventory_changes_,
                                 !.saved_store = inventory']
  /\ current_state' = "idle"
  /\ initial_frame' = -1
  /\ scan_start_time' = -1
  /\ UNCHANGED <<cli_pc, now, start_requests>>
  /\ UNCHANGED outside_cli

\* The analysis raises (the detector fails): nothing catches it in main().
CliAnalyzeRaises ==
  /\ cli_pc = "loop"
  /\ current_state = "scanning"
  /\ SCAN_DURATION_SEC - (now - scan_start_time) <= 0
  /\ cli_pc' = "crashed"
  /\ UNCHANGED <<current_state, scan_start_time, initial_frame, inventory, cycle>>
  /\ UNCHANGED <<env_vars, outside_cli>>

\* Key 'q', or a failed webcam read: the loop ends.
CliQuit ==
  /\ cli_pc = "loop"
  /\ cli_pc' = "exited"
  /\ UNCHANGED <<current_state, scan_start_time, initial_frame, inventory, cycle>>
  /\ UNCHANGED <<env_vars, outside_cli>>

\* The inventory editor page (app_simple_streamlit.py) saves a mapping (the
\* write succeeds).
EditorSave ==
  /\ cli_pc \in {"startup", "loop"}
  /\ \E new_inv \in EditorStores :
       /\ Written(new_inv) # inventory_file
       /\ inventory_file' = Written(new_inv)
  /\ cycle' = IF current_state = "scanning" THEN [cycle EXCEPT !.edited = TRUE] ELSE cycle
  /\ UNCHANGED <<now, start_requests>>
  /\ UNCHANGED <<cli_pc, current_state, scan_start_time, initial_frame, inventory>>
  /\ UNCHANGED outside_cli

\* The clock advances while the scan window is open (time that passes
\* outside a window changes no decision of the loop).
CliTick ==
  /\ cli_pc = "loop"
  /\ current_state = "scanning"
  /\ now - scan_start_time < SCAN_DURATION_SEC
  /\ now' = now + ClockStep
  /\ UNCHANGED <<inventory_file, start_requests>>
  /\ UNCHANGED <<cli_vars, outside_cli>>

NextCli ==
  \/ CliStartup
  \/ CliKeyStart
  \/ CliScanning
  \/ CliAnalyze
  \/ CliAnalyzeRaises
  \/ CliQuit
  \/ EditorSave
  \/ CliTick

SpecCli == InitCli /\ [][NextCli]_vars

\* C19 (as claimed): the mapping a cycle saves is apply(the persisted store
\* as it was when the cycle started, the cycle's changes), for every cycle
\* during which nobody else wrote the file.
C19_SavedFromStoreAtCycleStart ==
  (cycle # <<>> /\ cycle.saved /\ ~cycle.edited) =>
    cycle.saved_store = ApplyValue(load_inventory(cycle.file_at_start).value, cycle.changes)

\* ------------------------------------------------------------- ui_app.py
\*
\* st.session_state is memory shared by the script runs and the analysis
\* threads, as run_analysis_async uses it.  A script run is main() from top
\* to bottom; it is cut at the lines where it reads or writes the flags the
\* threads write.  The overlay text (lines 162-168) and the inventory table
\* (lines 180-200) only display state.

\* The changes mappings an analysis thread computes.
UiChanges == { [l \in {"skittles"} |-> -1] }

\* A thread at line `line` of its finally block: its arguments are used no
\* more.
InFinally(line) ==
  [pc |-> line, initial_frame |-> -1, final_frame |-> -1, launched_at |-> -1,
   request |-> <<>>]

\* A run_analysis_async thread just started with its two arguments, and, as
\* history, the time of its start and the accepted request it serves.
NewThread(initial, final, at, request) ==
  [pc |-> "try", initial_frame |-> initial, final_frame |-> final,
   launched_at |-> at, request |-> request]

InitUi ==
  /\ EngineOff
  /\ CliOff
  /\ StoreOff
  /\ CentroidOff
  /\ CellOff
  /\ now = 0
  /\ inventory_file = Written([l \in {"skittles"} |-> MaxCount])
  /\ start_requests = 0
  /\ ui_pc = "start_button"
  /\ is_scanning = FALSE
  /\ scan_start_ts = -1
  /\ ss_initial_frame = -1
  /\ ss_final_frame = -1
  /\ analyzing = FALSE
  /\ ss_inventory = load_inventory(inventory_file).value
  /\ last_changes = EmptyDict
  /\ latest_frame = -1
  /\ start_enabled = FALSE
  /\ reset_enabled = FALSE
  /\ click = "none"
  /\ threads = <<>>
  /\ accepted = <<>>

\* Line 143-151: the Start button is rendered, disabled when is_scanning (the
\* flag is evaluated before the body runs); a click the browser sent for it
\* makes st.button return True, and the body, which tests no flag, starts the
\* scan when a frame is there.
StartButton ==
  /\ ui_pc = "start_button"
  /\ start_enabled' = ~is_scanning
  /\ IF click = "start"
     THEN /\ click' = "none"
          /\ IF latest_frame # -1
             THEN /\ ss_initial_frame' = latest_frame
                  /\ is_scanning' = TRUE
                  /\ scan_start_ts' = now
                  /\ last_changes' = EmptyDict
                  /\ accepted' = [ts |-> now, frame |-> latest_frame, analyses |-> 0]
             ELSE UNCHANGED <<ss_initial_frame, is_scanning, scan_start_ts,
                              last_changes, accepted>>
     ELSE UNCHANGED <<click, ss_initial_frame, is_scanning, scan_start_ts,
                      last_changes, accepted>>
  /\ ui_pc' = "reset_button"
  /\ UNCHANGED <<ss_final_frame, analyzing, ss_inventory, latest_frame,
                 reset_enabled, threads>>
  /\ UNCHANGED <<env_vars, outside_ui>>

\* Line 154-159: the Reset button, disabled when is_scanning.
ResetButton ==
  /\ ui_pc = "reset_button"
  /\ reset_enabled' = ~is_scanning
  /\ IF click = "reset"
     THEN /\ click' = "none"
          /\ is_scanning' = FALSE
          /\ scan_start_ts' = -1
          /\ ss_initial_frame' = -1
          /\ ss_final_frame' = -1
          /\ last_changes' = EmptyDict
     ELSE UNCHANGED <<click, is_scanning, scan_start_ts, ss_initial_frame,
                      ss_final_frame, last_changes>>
  /\ ui_pc' = "timer_check"
  /\ UNCHANGED <<analyzing, ss_inventory, latest_frame, start_enabled, threads,
                 accepted>>
  /\ UNCHANGED <<env_vars, outside_ui>>

\* Line 171: is a scan waiting for its analysis?
TimerCheck ==
  /\ ui_pc = "timer_check"
  /\ ui_pc' = IF is_scanning /\ scan_start_ts # -1 /\ ~analyzing
              THEN "elapsed" ELSE "rerun_check"
  /\ UNCHANGED <<is_scanning, scan_start_ts, ss_initial_frame, ss_final_frame,
                 analyzing, ss_inventory, last_changes, latest_frame,
                 start_enabled, reset_enabled, click, threads, accepted>>
  /\ UNCHANGED <<env_vars, outside_ui>>

\* Line 172-173: the elapsed time; time.time() - None raises and ends the run.
Elapsed ==
  /\ ui_pc = "elapsed"
  /\ ui_pc' = IF scan_start_ts = -1 THEN "waiting"
              ELSE IF now - scan_start_ts >= SCAN_DURATION_SEC THEN "capture"
              ELSE "rerun_check"
  /\ UNCHANGED <<is_scanning, scan_start_ts, ss_initial_frame, ss_final_frame,
                 analyzing, ss_inventory, last_changes, latest_frame,
                 start_enabled, reset_enabled, click, threads, accepted>>
  /\ UNCHANGED <<env_vars, outside_ui>>

\* Line 174-176: the final frame is taken and analyzing is set.
Capture ==
  /\ ui_pc = "capture"
  /\ IF latest_frame # -1
     THEN /\ ss_final_frame' = latest_frame
          /\ analyzing' = TRUE
          /\ ui_pc' = "launch"
     ELSE /\ UNCHANGED <<ss_final_frame, analyzing>>
          /\ ui_pc' = "rerun_check"
  /\ UNCHANGED <<is_scanning, scan_start_ts, ss_initial_frame, ss_inventory,
                 last_changes, latest_frame, start_enabled, reset_enabled,
                 click, threads, accepted>>
  /\ UNCHANGED <<env_vars, outside_ui>>

\* Line 178: the analysis thread is started with the two frames as they are
\* in the session state now.  Beyond MaxThreads threads the run is not
\* followed further.
Launch ==
  /\ ui_pc = "launch"
  /\ IF Len(threads) < MaxThreads
     THEN /\ threads' = Append(threads,
                          NewThread(ss_initial_frame, ss_final_frame, now, accepted))
          /\ accepted' = [accepted EXCEPT !.analyses = @ + 1]
          /\ ui_pc' = "rerun_check"
     ELSE /\ UNCHANGED <<threads, accepted>>
          /\ ui_pc' = "beyond"
  /\ UNCHANGED <<is_scanning, scan_start_ts, ss_initial_frame, ss_final_frame,
                 analyzing, ss_inventory, last_changes, latest_frame,
                 start_enabled, reset_enabled, click>>
  /\ UNCHANGED <<env_vars, outside_ui>>

\* Line 203-204: rerun while scanning or analyzing, else the run ends.
RerunCheck ==
  /\ ui_pc = "rerun_check"
  /\ ui_pc' = IF is_scanning \/ analyzing THEN "start_button" ELSE "waiting"
  /\ UNCHANGED <<is_scanning, scan_start_ts, ss_initial_frame, ss_final_frame,
                 analyzing, ss_inventory, last_changes, latest_frame,
                 start_enabled, reset_enabled, click, threads, accepted>>
  /\ UNCHANGED <<env_vars, outside_ui>>

\* A click makes Streamlit run the script again.
ScriptBegin ==
  /\ ui_pc = "waiting"
  /\ click # "none"
  /\ ui_pc' = "start_button"
  /\ UNCHANGED <<is_scanning, scan_start_ts, ss_initial_frame, ss_final_frame,
                 analyzing, ss_inventory, last_changes, latest_frame,
                 start_enabled, reset_enabled, click, threads, accepted>>
  /\ UNCHANGED <<env_vars, outside_ui>>

Script ==
  \/ StartButton
  \/ ResetButton
  \/ TimerCheck
  \/ Elapsed
  \/ Capture
  \/ Launch
  \/ RerunCheck
  \/ ScriptBegin

\* The user clicks the Start button, which the browser shows enabled.
UserClickStart ==
  /\ ui_pc \notin {"off", "beyond"}
  /\ start_enabled
  /\ click = "none"
  /\ start_requests < MaxStartRequests
  /\ click' = "start"
  /\ start_requests' = start_requests + 1
  /\ UNCHANGED <<ui_pc, is_scanning, scan_start_ts, ss_initial_frame,
                 ss_final_frame, analyzing, ss_inventory, last_changes,
                 latest_frame, start_enabled, reset_enabled, threads, accepted>>
  /\ UNCHANGED <<now, inventory_file, outside_ui>>

\* The user clicks the Reset button, which the browser shows enabled.
UserClickReset ==
  /\ ui_pc \notin {"off", "beyond"}
  /\ reset_enabled
  /\ click = "none"
  /\ click' = "reset"
  /\ UNCHANGED <<ui_pc, is_scanning, scan_start_ts, ss_initial_frame,
                 ss_final_frame, analyzing, ss_inventory, last_changes,
                 latest_frame, start_enabled, reset_enabled, threads, accepted>>
  /\ UNCHANGED <<env_vars, outside_ui>>

\* PreviewProcessor.recv: the camera delivers its first frame.
Recv ==
  /\ ui_pc \notin {"off", "beyond"}
  /\ latest_frame = -1
  /\ latest_frame' = now
  /\ UNCHANGED <<ui_pc, is_scanning, scan_start_ts, ss_initial_frame,
                 ss_final_frame, analyzing, ss_inventory, last_changes,
                 start_enabled, reset_enabled, click, threads, accepted>>
  /\ UNCHANGED <<env_vars, outside_ui>>

\* The clock advances while a scan window is open (time that passes outside
\* a window changes no decision of the script); the running camera has
\* delivered the frame of the new moment (PreviewProcessor.recv).
UiTick ==
  /\ ui_pc \notin {"off", "beyond"}
  /\ is_scanning
  /\ scan_start_ts # -1
  /\ now - scan_start_ts < SCAN_DURATION_SEC
  /\ now' = now + ClockStep
  /\ latest_frame' = IF latest_frame = -1 THEN -1 ELSE now'
  /\ UNCHANGED <<inventory_file, start_requests>>
  /\ UNCHANGED <<ui_pc, is_scanning, scan_start_ts, ss_initial_frame,
                 ss_final_frame, analyzing, ss_inventory, last_changes,
                 start_enabled, reset_enabled, click, threads, accepted>>
  /\ UNCHANGED outside_ui

\* Lines 92-105 run through: the store is updated, saved (the write
\* succeeds) and reported.
\* model.predict and initial_frame.shape need a frame.
ThreadBody(i) ==
  /\ threads[i].pc = "try"
  /\ threads[i].initial_frame # -1
  /\ threads[i].final_frame # -1
  /\ \E changes \in UiChanges :
       /\ ss_inventory' = ApplyValue(ss_inventory, changes)
       /\ inventory_file' = Written(ss_inventory')
       /\ last_changes' = changes
  /\ threads' = [threads EXCEPT ![i] = InFinally("l107")]
  /\ UNCHANGED <<ui_pc, is_scanning, scan_start_ts, ss_initial_frame,
                 ss_final_frame, analyzing, latest_frame, start_enabled,
                 reset_enabled, click, accepted>>
  /\ UNCHANGED <<now, start_requests, outside_ui>>

\* Lines 92-101 raise: control goes to the finally block.
ThreadRaises(i) ==
  /\ threads[i].pc = "try"
  /\ threads' = [threads EXCEPT ![i] = InFinally("l107")]
  /\ UNCHANGED <<ui_pc, is_scanning, scan_start_ts, ss_initial_frame,
                 ss_final_frame, analyzing, ss_inventory, last_changes,
                 latest_frame, start_enabled, reset_enabled, click, accepted>>
  /\ UNCHANGED <<env_vars, outside_ui>>

\* Lines 107-111, one assignment at a time.
ThreadFinally(i) ==
  /\ threads[i].pc \in {"l107", "l108", "l109", "l110", "l111"}
  /\ analyzing' = IF threads[i].pc = "l107" THEN FALSE ELSE analyzing
  /\ is_scanning' = IF threads[i].pc = "l108" THEN FALSE ELSE is_scanning
  /\ scan_start_ts' = IF threads[i].pc = "l109" THEN -1 ELSE scan_start_ts
  /\ ss_initial_frame' = IF threads[i].pc = "l110" THEN -1 ELSE ss_initial_frame
  /\ ss_final_frame' = IF threads[i].pc = "l111" THEN -1 ELSE ss_final_frame
  /\ threads' = [threads EXCEPT ![i].pc =
                   CASE threads[i].pc = "l107" -> "l108"
                     [] threads[i].pc = "l108" -> "l109"
                     [] threads[i].pc = "l109" -> "l110"
                     [] threads[i].pc = "l110" -> "l111"
                     [] threads[i].pc = "l111" -> "done"]
  /\ UNCHANGED <<ui_pc, ss_inventory, last_changes, latest_frame, start_enabled,
                 reset_enabled, click, accepted>>
  /\ UNCHANGED <<env_vars, outside_ui>>

Thread ==
  \E i \in 1..Len(threads) :
    \/ ThreadBody(i)
    \/ ThreadRaises(i)
    \/ ThreadFinally(i)

NextUi ==
  \/ Script
  \/ Thread
  \/ UserClickStart
  \/ UserClickReset
  \/ Recv
  \/ UiTick

\* The script run, the threads, the camera and the clock keep going; the user
\* owes no click.
SpecUi ==
  /\ InitUi
  /\ [][NextUi]_vars
  /\ WF_vars(Script)
  /\ WF_vars(Thread)
  /\ WF_vars(Recv)
  /\ WF_vars(UiTick)

\* ------------------------------------------------- the scan state machine

\* IDLE: neither scanning nor analyzing.
UiIdle == ~is_scanning /\ ~analyzing

\* The step of a script run that accepts a start request.
StartAccepted ==
  /\ ui_pc = "start_button"
  /\ click = "start"
  /\ latest_frame # -1
  /\ ui_pc' = "reset_button"

\* C15 (as claimed): a start request is accepted only in state IDLE; one that
\* arrives while the machine is SCANNING or ANALYZING is ignored.
C15_StartAcceptedOnlyInIdle == [][StartAccepted => UiIdle]_vars

\* C16 (as claimed): at most one analysis is in flight at any time, and one
\* accepted scan triggers one analysis, not more.
C16_OneAnalysisPerScan ==
  /\ Cardinality({ i \in 1..Len(threads) : threads[i].pc = "try" }) <= 1
  /\ accepted # <<>> => accepted.analyses <= 1

\* C17 (as claimed): an analysis starts only when the scan duration has
\* elapsed since the accepted start, with the before shot captured at that
\* start and an after shot captured at expiry; and the before shot is neither
\* replaced nor cleared between those two moments.
C17_BeforeShotKeptUntilExpiry ==
  /\ \A i \in 1..Len(threads) :
       threads[i].pc = "try" =>
         /\ threads[i].launched_at - threads[i].request.ts >= SCAN_DURATION_SEC
         /\ threads[i].initial_frame = threads[i].request.frame
         /\ threads[i].final_frame - threads[i].request.ts >= SCAN_DURATION_SEC
  /\ (is_scanning /\ accepted # <<>> /\ accepted.analyses = 0) =>
       ss_initial_frame = accepted.frame

\* C18 (as claimed): every accepted start is followed by a return to IDLE,
\* whether the analysis succeeds or fails (runs that start more than
\* MaxThreads threads are not followed).
C18_ScanReturnsToIdle == is_scanning ~> (UiIdle \/ ui_pc = "beyond")

\* ------------------------------------------- the matcher, further properties

\* C24: when several unclaimed same-class after-detections are at the same
\* minimum centroid distance from a before-detection, the one with the lowest
\* index in the after list is selected.
C24_TieGoesToLowestIndex ==
  \A p \in pairs :
    \A a \in Candidates(p.before) :
      CentroidDist(p.before, a) = CentroidDist(p.before, p.after) => p.after <= a

\* A match that had a second candidate, later in the list, at the same
\* minimum distance.
C24_Witness ==
  /\ pc = "done"
  /\ \E p \in pairs : \E a \in Candidates(p.before) :
       /\ a > p.after
       /\ CentroidDist(p.before, a) = CentroidDist(p.before, p.after)
       /\ \A a2 \in Candidates(p.before) :
            CentroidDist(p.before, p.after) <= CentroidDist(p.before, a2)

\* The before-indices and after-indices of class c, and its matched pairs.
BeforeOfClass(c) == { b \in BeforeIndices : initial_detections[b].class_id = c }
AfterOfClass(c) == { a \in AfterIndices : final_detections[a].class_id = c }
PairsOfClass(c) == { p \in pairs : initial_detections[p.before].class_id = c }

Min(x, y) == IF x <= y THEN x ELSE y

\* C25: once pass 1 is over, every class has as many matched pairs as the
\* smaller of its before count and its after count; so no class has an
\* unmatched before-detection and an unmatched after-detection in one cycle.
C25_MatchedCountIsMinPerClass ==
  pc # "pass1" =>
    \A c \in ClassIds :
      /\ Cardinality(PairsOfClass(c)) =
           Min(Cardinality(BeforeOfClass(c)), Cardinality(AfterOfClass(c)))
      /\ ~ /\ BeforeOfClass(c) \ MatchedBefore # {}
           /\ AfterOfClass(c) \ MatchedAfter # {}

\* A finished cycle in which a class with matched pairs has more before- than
\* after-detections, and the other class is present on the after side only.
C25_Witness ==
  /\ pc = "done"
  /\ \E c \in ClassIds : \E c2 \in ClassIds :
       /\ PairsOfClass(c) # {}
       /\ Cardinality(BeforeOfClass(c)) > Cardinality(AfterOfClass(c))
       /\ BeforeOfClass(c2) = {}
       /\ AfterOfClass(c2) # {}

\* C26: when the after list is the before list, every detection is matched to
\* an after-detection with the same centroid, the changes mapping returned is
\* empty, and applying it leaves every store's counts as they were.
C26_IdenticalListsChangeNothing ==
  (pc = "done" /\ final_detections = initial_detections) =>
    /\ \A b \in BeforeIndices :
         \E p \in pairs : p.before = b /\ CentroidDist(b, p.after) = 0
    /\ \A a \in AfterIndices : a \in MatchedAfter
    /\ inventory_changes = EmptyDict
    /\ \A store \in Stores : ApplyValue(store, inventory_changes) = store

\* A finished cycle over two identical lists of two detections of one class.
C26_Witness ==
  /\ pc = "done"
  /\ final_detections = initial_detections
  /\ Len(initial_detections) = 2
  /\ initial_detections[1].class_id = initial_detections[2].class_id
  /\ initial_detections[1].bbox # initial_detections[2].bbox

\* ------------------------------------------ load_inventory, save_inventory

\* The mappings the callers save.
SavedStores == UNION { [L -> {0, MaxCount}] : L \in SUBSET StoreLabels }

InitStore ==
  /\ EngineOff
  /\ CliOff
  /\ UiOff
  /\ CentroidOff
  /\ CellOff
  /\ now = 0
  /\ start_requests = 0
  /\ inventory_file = Absent
  /\ loaded = <<>>
  /\ last_saved = <<>>
  /\ intact = FALSE

\* A call of save_inventory(filepath, inventory).
SaveInventory ==
  /\ \E inventory_ \in SavedStores :
       /\ inventory_file' \in save_inventory(inventory_file, inventory_)
       /\ IF inventory_file' = Written(inventory_)
          THEN last_saved' = inventory_ /\ intact' = TRUE
          ELSE /\ UNCHANGED last_saved
               /\ intact' = (intact /\ inventory_file' = inventory_file)
  /\ UNCHANGED <<loaded, outside_store>>

\* A call of load_inventory(filepath); the file it read and the last saved
\* mapping are kept with its outcome.
LoadInventory ==
  /\ loaded' = [outcome |-> load_inventory(inventory_file), file |-> inventory_file,
                intact |-> intact, last_saved |-> last_saved]
  /\ UNCHANGED <<inventory_file, last_saved, intact, outside_store>>

\* Something else removes the file, cuts it short or overwrites it with bytes
\* that are no text.
FileDamaged ==
  /\ inventory_file' \in
       {Absent, Undecodable}
       \cup { [kind |-> "text", tokens |-> SubSeq(inventory_file.tokens, 1, n)] :
                n \in 0..(Len(inventory_file.tokens) - 1) }
  /\ inventory_file' # inventory_file
  /\ intact' = FALSE
  /\ UNCHANGED <<loaded, last_saved, outside_store>>

NextStore == SaveInventory \/ LoadInventory \/ FileDamaged

SpecStore == InitStore /\ [][NextStore]_vars

\* The content of the file cannot be parsed.
Unparsable(file) ==
  \/ file.kind = "bytes"
  \/ file.kind = "text" /\ ~json_valid(file.tokens)

\* C21 (as claimed): load_inventory returns {} without raising when the file
\* is absent or its content cannot be parsed; otherwise, the file being as the
\* last successful save_inventory left it, it returns the mapping of that save.
C21_LoadNeverRaises ==
  loaded # <<>> =>
    /\ (loaded.file.kind = "absent" \/ Unparsable(loaded.file)) =>
         /\ ~loaded.outcome.raised
         /\ loaded.outcome.value = EmptyDict
    /\ (loaded.file.kind # "absent" /\ ~Unparsable(loaded.file) /\ loaded.intact) =>
         /\ ~loaded.outcome.raised
         /\ loaded.outcome.value = loaded.last_saved

\* ------------------------------------- calculate_centroid on any argument

\* The coordinates and the lengths of the bbox arguments tried.
RawCoordinates == {0, 2, 4}
RawLengths == {3, 4, 5}

\* xmin, ymin, xmax, ymax = bbox raises ValueError unless bbox has four items;
\* nothing else in calculate_centroid raises on numbers.
calculate_centroid_call(bbox) ==
  IF Len(bbox) # 4 THEN [raised |-> TRUE, value |-> <<>>]
  ELSE [raised |-> FALSE, value |-> calculate_centroid(bbox)]

\* analyze_inventory_changes([{class_id, bbox}], [], config, class_map): the
\* first statement of find_best_match is calculate_centroid(initial_det.bbox);
\* with no after-detection there is no match and the label gets -1.
analyze_single_before(class_id, bbox) ==
  IF calculate_centroid_call(bbox).raised
  THEN [raised |-> TRUE, changes |-> EmptyDict]
  ELSE LET initial_det == [class_id |-> class_id, bbox |-> bbox]
           found == find_best_match(initial_det, <<>>, {})
       IN  [raised |-> FALSE,
            changes |-> IF found.best_match_index # -1 THEN EmptyDict
                        ELSE DisappearedChanges(EmptyDict,
                                                ClassLabel(CLASS_MAP, class_id))]

InitCentroid ==
  /\ EngineOff
  /\ EnvOff
  /\ CliOff
  /\ UiOff
  /\ StoreOff
  /\ CellOff
  /\ \E n \in RawLengths : raw_bbox \in [1..n -> RawCoordinates]
  /\ centroid_out = <<>>
  /\ cycle_out = <<>>

\* calculate_centroid(bbox) is called.
CallCentroid ==
  /\ centroid_out = <<>>
  /\ centroid_out' = calculate_centroid_call(raw_bbox)
  /\ UNCHANGED <<raw_bbox, cycle_out, outside_centroid>>

\* A cycle whose only detection, a before-detection, has this bbox.
CallCycle ==
  /\ cycle_out = <<>>
  /\ \E class_id \in ClassIds :
       cycle_out' = analyze_single_before(class_id, raw_bbox)
  /\ UNCHANGED <<raw_bbox, centroid_out, outside_centroid>>

NextCentroid == CallCentroid \/ CallCycle

SpecCentroid == InitCentroid /\ [][NextCentroid]_vars

\* The bbox has not exactly four coordinates, or xmin > xmax, or ymin > ymax.
Malformed(bbox) ==
  \/ Len(bbox) # 4
  \/ bbox[1] > bbox[3]
  \/ bbox[2] > bbox[4]

\* C22 (as claimed): on a bbox that has not exactly four coordinates, or has
\* xmin > xmax or ymin > ymax, calculate_centroid fails instead of returning a
\* centroid, and a cycle given that bbox fails and produces no changes.
C22_MalformedBboxRejected ==
  Malformed(raw_bbox) =>
    /\ centroid_out # <<>> => centroid_out.raised
    /\ cycle_out # <<>> => (cycle_out.raised /\ cycle_out.changes = EmptyDict)

\* ---------------------------------------------------------------------------
\* The latest-frame cells: _latest_jpeg of action_scanner.py, written by the
\* main loop and read by the MJPEG handler threads under _latest_jpeg_lock, and
\* PreviewProcessor.latest_frame of ui_app.py, written by recv and read by the
\* script run.  Frames are numbered in the order the writer produces them.
\* ---------------------------------------------------------------------------

\* How many frames the writer produces.
MaxFrames == 3

\* The MJPEG handler threads of action_scanner.py (one per connected client).
Handlers == {"handler1", "handler2"}

\* The reader of PreviewProcessor.latest_frame: the script run of ui_app.py.
ScriptRuns == {"script"}

\* threading.Lock: whether the lock is held.
locked_never(lock) == FALSE

locked(lock) == lock # "free"

\* A reader before its first read.
NewReader(at) == [pc |-> at, frame |-> 0, reads |-> FALSE, before |-> 0, at_read |-> 0]

\* The reader's record after it read the cell: the local frame takes the value,
\* the history keeps the previous local frame and the last completed write.
AfterRead(reader, value, at) ==
  [pc |-> at, frame |-> value, reads |-> TRUE, before |-> reader.frame,
   at_read |-> completed_write]

InitCell ==
  /\ EngineOff
  /\ EnvOff
  /\ CliOff
  /\ UiOff
  /\ StoreOff
  /\ CentroidOff
  /\ front_end \in {"action_scanner", "ui_app"}
  /\ latest_jpeg = 0
  /\ latest_jpeg_lock = "free"
  /\ processor_latest_frame = 0
  /\ writer = [pc |-> IF front_end = "action_scanner" THEN "encode" ELSE "recv",
               jpg |-> 0, captured |-> 0]
  /\ readers = IF front_end = "action_scanner"
                 THEN [h \in Handlers |-> NewReader("with")]
                 ELSE [r \in ScriptRuns |-> NewReader("test")]
  /\ completed_write = 0

\* action_scanner.py line 207: the main loop encodes the frame of this
\* iteration; a failed encode (ret false) leaves the cell alone.
WriterEncode ==
  /\ front_end = "action_scanner"
  /\ writer.pc = "encode"
  /\ writer.captured < MaxFrames
  /\ \E ret \in BOOLEAN :
       writer' = [pc |-> IF ret THEN "with" ELSE "encode",
                  jpg |-> IF ret THEN writer.captured + 1 ELSE writer.jpg,
                  captured |-> writer.captured + 1]
  /\ UNCHANGED <<front_end, latest_jpeg, latest_jpeg_lock, processor_latest_frame,
                 readers, completed_write>>
  /\ UNCHANGED outside_cell

\* line 209: with _latest_jpeg_lock, entered.
WriterAcquire ==
  /\ front_end = "action_scanner"
  /\ writer.pc = "with"
  /\ ~locked(latest_jpeg_lock)
  /\ latest_jpeg_lock' = "writer"
  /\ writer' = [writer EXCEPT !.pc = "store"]
  /\ UNCHANGED <<front_end, latest_jpeg, processor_latest_frame, readers, completed_write>>
  /\ UNCHANGED outside_cell

\* line 212: _latest_jpeg = jpg.tobytes().
WriterStore ==
  /\ front_end = "action_scanner"
  /\ writer.pc = "store"
  /\ latest_jpeg' = writer.jpg
  /\ writer' = [writer EXCEPT !.pc = "exit"]
  /\ UNCHANGED <<front_end, latest_jpeg_lock, processor_latest_frame, readers,
                 completed_write>>
  /\ UNCHANGED outside_cell

\* The with block of line 209 is left: the write is complete.
WriterRelease ==
  /\ front_end = "action_scanner"
  /\ writer.pc = "exit"
  /\ latest_jpeg_lock' = "free"
  /\ completed_write' = writer.jpg
  /\ writer' = [writer EXCEPT !.pc = "encode"]
  /\ UNCHANGED <<front_end, latest_jpeg, processor_latest_frame, readers>>
  /\ UNCHANGED outside_cell

\* do_GET line 28: with _latest_jpeg_lock, entered.
ReaderAcquire(h) ==
  /\ front_end = "action_scanner"
  /\ readers[h].pc = "with"
  /\ ~locked(latest_jpeg_lock)
  /\ latest_jpeg_lock' = h
  /\ readers' = [readers EXCEPT ![h].pc = "read"]
  /\ UNCHANGED <<front_end, latest_jpeg, processor_latest_frame, writer, completed_write>>
  /\ UNCHANGED outside_cell

\* do_GET line 29: frame = _latest_jpeg.
ReaderRead(h) ==
  /\ front_end = "action_scanner"
  /\ readers[h].pc = "read"
  /\ readers' = [readers EXCEPT ![h] = AfterRead(readers[h], latest_jpeg, "exit")]
  /\ UNCHANGED <<front_end, latest_jpeg, latest_jpeg_lock, processor_latest_frame, writer,
                 completed_write>>
  /\ UNCHANGED outside_cell

\* do_GET: the with block of line 28 is left.
ReaderRelease(h) ==
  /\ front_end = "action_scanner"
  /\ readers[h].pc = "exit"
  /\ latest_jpeg_lock' = "free"
  /\ readers' = [readers EXCEPT ![h].pc = "test"]
  /\ UNCHANGED <<front_end, latest_jpeg, processor_latest_frame, writer, completed_write>>
  /\ UNCHANGED outside_cell

\* do_GET lines 30-39: nothing to send yet (sleep and read again), or the frame
\* is written to the client and the loop reads again.
ReaderSend(h) ==
  /\ front_end = "action_scanner"
  /\ readers[h].pc = "test"
  /\ readers' = [readers EXCEPT ![h].pc = "with"]
  /\ UNCHANGED <<front_end, latest_jpeg, latest_jpeg_lock, processor_latest_frame, writer,
                 completed_write>>
  /\ UNCHANGED outside_cell

\* do_GET lines 40-42: the client disconnected, the write raises, the thread ends.
ReaderDisconnect(h) ==
  /\ front_end = "action_scanner"
  /\ readers[h].pc = "test"
  /\ readers[h].frame # 0
  /\ readers' = [readers EXCEPT ![h].pc = "gone"]
  /\ UNCHANGED <<front_end, latest_jpeg, latest_jpeg_lock, processor_latest_frame, writer,
                 completed_write>>
  /\ UNCHANGED outside_cell

\* ui_app.py line 66: recv converts the frame it is given.
PreviewRecv ==
  /\ front_end = "ui_app"
  /\ writer.pc = "recv"
  /\ writer.captured < MaxFrames
  /\ writer' = [pc |-> "assign", jpg |-> writer.captured + 1,
                captured |-> writer.captured + 1]
  /\ UNCHANGED <<front_end, latest_jpeg, latest_jpeg_lock, processor_latest_frame,
                 readers, completed_write>>
  /\ UNCHANGED outside_cell

\* ui_app.py line 67: self.latest_frame = img, one attribute assignment.
PreviewAssign ==
  /\ front_end = "ui_app"
  /\ writer.pc = "assign"
  /\ processor_latest_frame' = writer.jpg
  /\ completed_write' = writer.jpg
  /\ writer' = [writer EXCEPT !.pc = "recv"]
  /\ UNCHANGED <<front_end, latest_jpeg, latest_jpeg_lock, readers>>
  /\ UNCHANGED outside_cell

\* ui_app.py lines 145 and 174: the script run tests latest_frame for None.
PreviewTest(r) ==
  /\ front_end = "ui_app"
  /\ readers[r].pc = "test"
  /\ readers' =
       [readers EXCEPT ![r] =
          IF processor_latest_frame = 0
            THEN AfterRead(readers[r], 0, "test")
            ELSE [readers[r] EXCEPT !.pc = "copy"]]
  /\ UNCHANGED <<front_end, latest_jpeg, latest_jpeg_lock, processor_latest_frame, writer,
                 completed_write>>
  /\ UNCHANGED outside_cell

\* ui_app.py lines 146 and 175: the script run reads latest_frame and copies it.
PreviewCopy(r) ==
  /\ front_end = "ui_app"
  /\ readers[r].pc = "copy"
  /\ readers' = [readers EXCEPT ![r] = AfterRead(readers[r], processor_latest_frame, "test")]
  /\ UNCHANGED <<front_end, latest_jpeg, latest_jpeg_lock, processor_latest_frame, writer,
                 completed_write>>
  /\ UNCHANGED outside_cell

NextCell ==
  \/ WriterEncode
  \/ WriterAcquire
  \/ WriterStore
  \/ WriterRelease
  \/ \E h \in Handlers : ReaderAcquire(h)
  \/ \E h \in Handlers : ReaderRead(h)
  \/ \E h \in Handlers : ReaderRelease(h)
  \/ \E h \in Handlers : ReaderSend(h)
  \/ \E h \in Handlers : ReaderDisconnect(h)
  \/ PreviewRecv
  \/ PreviewAssign
  \/ \E r \in ScriptRuns : PreviewTest(r)
  \/ \E r \in ScriptRuns : PreviewCopy(r)

SpecCell == InitCell /\ [][NextCell]_vars

\* C23: under every interleaving of the writer and the readers, what a read
\* returned is empty exactly when no write had completed, and otherwise the
\* frame of the most recent completed write; it is never older than what the
\* same reader got before; and the cell holds one frame, none is queued: the
\* cell's content is the frame of the last store, whatever was stored before.
C23_ReadReturnsLatestCompletedWrite ==
  /\ \A r \in DOMAIN readers :
       readers[r].reads =>
         /\ readers[r].frame = readers[r].at_read
         /\ readers[r].frame >= readers[r].before
  /\ front_end = "action_scanner" =>
       latest_jpeg = (IF writer.pc = "exit" THEN writer.jpg ELSE completed_write)
  /\ front_end = "ui_app" => processor_latest_frame = completed_write

\* A handler thread that sent frame 1 reads again after frames 2 and 3 were
\* written: it gets frame 3, frame 2 was overwritten unread.
C23_Witness ==
  /\ front_end = "action_scanner"
  /\ \E h \in Handlers :
       /\ readers[h].reads
       /\ readers[h].before = 1
       /\ readers[h].frame = 3
       /\ readers[h].at_read = 3

====
